---- MODULE Spec2Model ----
(***************************************************************************)
(* Model of the handle-reservation edge function                           *)
(* (supabase/functions/handle-reservation/index.ts): the method gate, the  *)
(* body parse, validateReservationData, the insert wrapped in              *)
(* retryOperation, the e-mail send wrapped in retryOperation, the success  *)
(* response and the outer try/catch.                                       *)
(*                                                                         *)
(* Spec      : the handler serving up to MaxRequests requests one after    *)
(*             the other against one reservations table.                   *)
(* RetrySpec : retryOperation on its own, for every maxRetries in          *)
(*             0..MaxN and an operation that fails or succeeds freely.     *)
(* FormSpec  : the ReservationForm component: its inputs and handleSubmit, *)
(*             with the handler seen as the outcome of the fetch.          *)
(***************************************************************************)
EXTENDS Integers, Sequences, FiniteSets, TLC

VARIABLES
    pc,           \* position of the handler: idle, gate, parse, validate, persist, notify, caught, done (retry, form: not serving)
    reqId,        \* number of the request being served (0 before the first)
    method,       \* req.method
    body,         \* what req.json() yields: kind "malformed" | "null" | "object", and the payload
    now,          \* the instant new Date() returned in this request's validation (hours, UTC)
    tz,           \* offset of the runtime's local time zone from UTC (hours)
    rows,         \* the reservations table: sequence of [id, req]
    nextId,       \* the id the store assigns to the next inserted row
    dbResult,     \* handler local dbResult: the rows returned by insert().select()
    emailSuccess, \* handler local emailSuccess
    response,     \* the response returned for the current request
    nresp,        \* number of responses returned for the current request
    thrown,       \* failure in flight: thrown by retryOperation or towards the outer catch
    bodyRead,     \* TRUE once req.json() was called for the current request
    dbLog,        \* outcomes of the insert attempts of the current request
    mailLog,      \* outcomes of the e-mail attempts of the current request
    maxRetries,   \* retryOperation parameter
    delay,        \* retryOperation parameter
    attempt,      \* retryOperation loop variable
    lastError,    \* retryOperation local lastError
    rpc,          \* position inside retryOperation: off, try, sleep, returned, threw
    result,       \* value retryOperation returned
    calls,        \* number of times the operation was invoked by the current retryOperation
    waits,        \* the waits (ms) the current retryOperation performed, in order
    opLog,        \* outcomes of the attempts of the current retryOperation
    date,               \* form state date: the selected day, or NoDate
    reservationType,    \* form state reservationType
    isSubmitting,       \* form state isSubmitting
    submissionAttempts, \* form state submissionAttempts
    formData,           \* form state formData
    seenAttempts,       \* submissionAttempts as seen by the running handleSubmit (the render it was created in)
    fpc,                \* position of handleSubmit: idle, fetching
    toasts,             \* the toasts shown by the last handleSubmit
    posts,              \* number of POSTs issued since page load
    submits,            \* number of submissions that passed the date check since page load
    successes,          \* number of successful submissions since page load
    failStreak          \* number of failed submissions since page load or the last successful one

vars == <<pc, reqId, method, body, now, tz, rows, nextId, dbResult, emailSuccess,
          response, nresp, thrown, bodyRead, dbLog, mailLog,
          maxRetries, delay, attempt, lastError, rpc, result, calls, waits, opLog,
          date, reservationType, isSubmitting, submissionAttempts, formData,
          seenAttempts, fpc, toasts, posts, submits, successes, failStreak>>

handlerVars == <<pc, reqId, method, body, now, tz, rows, nextId, dbResult, emailSuccess,
                 response, nresp, bodyRead, dbLog, mailLog>>

retryVars == <<maxRetries, delay, attempt, lastError, rpc, result, calls, waits, opLog, thrown>>

formVars == <<date, reservationType, isSubmitting, submissionAttempts, formData,
              seenAttempts, fpc, toasts, posts, submits, successes, failStreak>>

----------------------------------------------------------------------------
(* Bounds *)
MaxRequests == 2      \* requests served in one behaviour
MaxDay == 2           \* calendar days 0..MaxDay
MaxN == 4             \* retryOperation is exercised for maxRetries in 0..MaxN
MaxSubmits == 4       \* submissions of the form that pass the date check

(* Program constants *)
MAX_RETRIES == 3
RETRY_DELAY == 500

----------------------------------------------------------------------------
(* Values *)
NoError == "null"                \* lastError = null
NoId == -1                       \* reservationId: null
NoNote == "null"                 \* emailNote: null
NoValue == <<>>                  \* no rows / nothing returned
GenericError == "Operation failed after maximum retries"
EmailNoteText == "Confirmation email could not be sent, but your reservation has been registered."
MissingMsg == "Missing required fields. Please fill all required information."
EmailMsg == "Invalid email format."
PastMsg == "Reservation date cannot be in the past."

Methods == {"OPTIONS", "POST", "GET", "PUT"}
DbErrors == {"db timeout", "db constraint"}
OpErrors == {"e1", "e2"}
OpValues == {<<"v1">>, <<"v2">>}

(* A text field of the payload: "" is the absent or empty one, "x" some text *)
FieldVals == {"", "x"}

(* E-mail addresses as sequences of characters; <<>> is the empty or absent one *)
Emails == { <<>>,
            <<"a", "@", "b", ".", "c">>,
            <<"a", "b", ".", "c">>,
            <<"a", "@", "b">>,
            <<"a", " ", "@", "b", ".", "c">>,
            <<"a", "@", "b", "@", "c", ".", "d">>,
            <<"a", "@", "b", ".">>,
            <<"@", "b", ".", "c">> }

(* The date field: empty, a string Date cannot parse, or the ISO date of day n *)
Dates == {[kind |-> "empty", day |-> 0], [kind |-> "garbage", day |-> 0]}
         \cup {[kind |-> "iso", day |-> d] : d \in 0..MaxDay}

(* Instants at which a request is validated: day 1 at 00:00, 06:00 and 23:00 UTC *)
Nows == {24, 30, 47}
(* Local time zones: west of UTC, UTC, east of UTC *)
Offsets == {-5, 0, 2}

\* reservationType "table" stands for both types: the handler branches on the type
\* only while it builds the text of the e-mail
Payloads == [name : FieldVals, email : Emails, date : Dates, time : FieldVals,
             guests : FieldVals, reservationType : {"", "table"}]

NoPayload == [name |-> "", email |-> <<>>, date |-> [kind |-> "empty", day |-> 0],
              time |-> "", guests |-> "", reservationType |-> ""]

Bodies == {[kind |-> "malformed", data |-> NoPayload], [kind |-> "null", data |-> NoPayload]}
          \cup {[kind |-> "object", data |-> p] : p \in Payloads}

NoResponse == [status |-> 0, error |-> "", message |-> "", details |-> "",
               success |-> FALSE, emailSent |-> FALSE, reservationId |-> NoId,
               emailNote |-> NoNote]

----------------------------------------------------------------------------
(* validateReservationData *)

\* JavaScript !v for a text field
Falsy(v) == v = ""

\* [^\s@]
PlainChar(c) == c # " " /\ c # "@"

AllPlain(s, from, to) == \A k \in from..to : PlainChar(s[k])

\* /^[^\s@]+@[^\s@]+\.[^\s@]+$/.test(s)
emailRegexTest(s) ==
    \E i \in 1..Len(s) : \E j \in 1..Len(s) :
        /\ s[i] = "@"
        /\ s[j] = "."
        /\ 1 < i /\ i + 1 < j /\ j < Len(s)
        /\ AllPlain(s, 1, i - 1)
        /\ AllPlain(s, i + 1, j - 1)
        /\ AllPlain(s, j + 1, Len(s))

\* new Date(data.date): an ISO date-only string is midnight UTC of that day
IsNaNDate(d) == d.kind # "iso"
DateValue(d) == d.day * 24

\* today = new Date(); today.setHours(0, 0, 0, 0): local midnight, as a UTC instant
LocalMidnight(t, off) == ((t + off) \div 24) * 24 - off

\* reservationDate < today (false when reservationDate is an invalid Date)
BeforeToday(d, t, off) == ~IsNaNDate(d) /\ DateValue(d) < LocalMidnight(t, off)

MissingRequired(data) ==
    \/ Falsy(data.name)
    \/ Len(data.email) = 0
    \/ data.date.kind = "empty"
    \/ Falsy(data.time)
    \/ Falsy(data.guests)
    \/ Falsy(data.reservationType)

\* variant: the date is checked before the e-mail address
validateDateBeforeEmail(data, t, off) ==
    IF MissingRequired(data) THEN [valid |-> FALSE, message |-> MissingMsg]
    ELSE IF BeforeToday(data.date, t, off) THEN [valid |-> FALSE, message |-> PastMsg]
    ELSE IF ~emailRegexTest(data.email) THEN [valid |-> FALSE, message |-> EmailMsg]
    ELSE [valid |-> TRUE, message |-> ""]

validateReservationData(data, t, off) ==
    IF MissingRequired(data) THEN [valid |-> FALSE, message |-> MissingMsg]
    ELSE IF ~emailRegexTest(data.email) THEN [valid |-> FALSE, message |-> EmailMsg]
    ELSE IF BeforeToday(data.date, t, off) THEN [valid |-> FALSE, message |-> PastMsg]
    ELSE [valid |-> TRUE, message |-> ""]

----------------------------------------------------------------------------
(* retryOperation *)

\* variant: the loop runs once more than maxRetries
LoopCondInclusive(a, n) == a <= n

\* attempt < maxRetries
LoopCond(a, n) == a < n

\* variant: the wait doubles with every attempt
WaitLengthExponential(d, a) == d * (2 ^ a)

\* delay * (attempt + 1)
WaitLength(d, a) == d * (a + 1)

\* attempt < maxRetries - 1
MoreAttempts(a, n) == a < n - 1

\* lastError || new Error('Operation failed after maximum retries')
TerminalError(e) == IF e # NoError THEN e ELSE GenericError

\* a fresh call of retryOperation(operation, n, d)
RetryEnter(n, d) ==
    /\ maxRetries' = n
    /\ delay' = d
    /\ attempt' = 0
    /\ lastError' = NoError
    /\ rpc' = "try"
    /\ result' = NoValue
    /\ calls' = 0
    /\ waits' = <<>>
    /\ opLog' = <<>>
    /\ thrown' = NoError

\* the loop condition holds and the operation is about to be invoked
RetryCanTry == rpc = "try" /\ LoopCond(attempt, maxRetries)

\* return await operation(): the operation resolved with v
RetryReturn(v) ==
    /\ calls' = calls + 1
    /\ opLog' = Append(opLog, [ok |-> TRUE, val |-> v, err |-> NoError])
    /\ result' = v
    /\ rpc' = "returned"
    /\ UNCHANGED <<maxRetries, delay, attempt, lastError, waits, thrown>>

\* variant: lastError keeps the first failure instead of the last
RetryCatchKeepFirst(e) ==
    /\ calls' = calls + 1
    /\ opLog' = Append(opLog, [ok |-> FALSE, val |-> NoValue, err |-> e])
    /\ lastError' = IF lastError = NoError THEN e ELSE lastError
    /\ IF attempt < maxRetries - 1
         THEN rpc' = "sleep" /\ attempt' = attempt
         ELSE rpc' = "try" /\ attempt' = attempt + 1
    /\ UNCHANGED <<maxRetries, delay, result, waits, thrown>>

\* catch (error): the operation threw e
RetryCatch(e) ==
    /\ calls' = calls + 1
    /\ opLog' = Append(opLog, [ok |-> FALSE, val |-> NoValue, err |-> e])
    /\ lastError' = e
    /\ IF MoreAttempts(attempt, maxRetries)
         THEN rpc' = "sleep" /\ attempt' = attempt
         ELSE rpc' = "try" /\ attempt' = attempt + 1
    /\ UNCHANGED <<maxRetries, delay, result, waits, thrown>>

\* await new Promise(resolve => setTimeout(resolve, delay * (attempt + 1))), then attempt++
RetrySleep ==
    /\ UNCHANGED formVars
    /\ rpc = "sleep"
    /\ waits' = Append(waits, WaitLength(delay, attempt))
    /\ attempt' = attempt + 1
    /\ rpc' = "try"
    /\ UNCHANGED <<maxRetries, delay, lastError, result, calls, opLog, thrown>>
    /\ UNCHANGED handlerVars

\* the loop ended without a return: throw lastError || new Error(...)
RetryExhausted ==
    /\ UNCHANGED formVars
    /\ rpc = "try"
    /\ ~LoopCond(attempt, maxRetries)
    /\ thrown' = TerminalError(lastError)
    /\ rpc' = "threw"
    /\ UNCHANGED <<maxRetries, delay, attempt, lastError, result, calls, waits, opLog>>
    /\ UNCHANGED handlerVars

\* retryOperation on its own: an operation that resolves or throws
OpAttempt ==
    /\ UNCHANGED formVars
    /\ pc = "retry"
    /\ RetryCanTry
    /\ \/ \E v \in OpValues : RetryReturn(v)
       \/ \E e \in OpErrors : RetryCatch(e)
    /\ UNCHANGED handlerVars

----------------------------------------------------------------------------
(* The serve handler *)

\* createResponse(body, status) / new Response(...): the handler returns r
Respond(r) ==
    /\ response' = r
    /\ nresp' = nresp + 1
    /\ pc' = "done"

\* req.method === 'OPTIONS'
IsPreflight(m) == m = "OPTIONS"

\* variant: GET is let through as well
IsPostOrGet(m) == m \in {"POST", "GET"}

\* !(req.method !== 'POST')
IsPost(m) == m = "POST"

\* dbResult?.[0]?.id || null
ReservationId(res) ==
    IF Len(res) = 0 THEN NoId
    ELSE IF res[1].id = 0 THEN NoId
    ELSE res[1].id

\* emailSuccess ? null : 'Confirmation email could not be sent, ...'
EmailNote(ok) == IF ok THEN NoNote ELSE EmailNoteText

\* the body of the 200 response
SuccessBody(ok, res) ==
    [NoResponse EXCEPT !.status = 200, !.success = TRUE,
                       !.message = "Reservation submitted successfully",
                       !.emailSent = ok,
                       !.reservationId = ReservationId(res),
                       !.emailNote = EmailNote(ok)]

\* the body of the 500 response after the insert's retries are exhausted
DatabaseErrorBody(e) ==
    [NoResponse EXCEPT !.status = 500, !.error = "Database error",
                       !.message = "We could not save your reservation. Please try again later or contact us directly.",
                       !.details = e]

\* a request arrives
Receive ==
    /\ UNCHANGED formVars
    /\ pc = "idle"
    /\ reqId < MaxRequests
    /\ reqId' = reqId + 1
    /\ method' \in Methods
    /\ body' \in Bodies
    /\ pc' = "gate"
    /\ UNCHANGED <<now, tz, rows, nextId, dbResult, emailSuccess, response, nresp,
                   bodyRead, dbLog, mailLog>>
    /\ UNCHANGED retryVars

\* the handler has returned its response: the invocation ends and its locals are gone
Finish ==
    /\ UNCHANGED formVars
    /\ pc = "done"
    /\ pc' = "idle"
    /\ method' = "POST"
    /\ body' = [kind |-> "null", data |-> NoPayload]
    /\ now' = 24
    /\ dbResult' = NoValue
    /\ emailSuccess' = FALSE
    /\ response' = NoResponse
    /\ nresp' = 0
    /\ bodyRead' = FALSE
    /\ dbLog' = <<>>
    /\ mailLog' = <<>>
    /\ maxRetries' = 0 /\ delay' = 0 /\ attempt' = 0 /\ lastError' = NoError
    /\ rpc' = "off" /\ result' = NoValue /\ calls' = 0 /\ waits' = <<>>
    /\ opLog' = <<>> /\ thrown' = NoError
    /\ UNCHANGED <<reqId, tz, rows, nextId>>

\* the OPTIONS and non-POST answers
MethodGate ==
    /\ UNCHANGED formVars
    /\ pc = "gate"
    /\ IF IsPreflight(method)
         THEN Respond([NoResponse EXCEPT !.status = 200])
         ELSE IF ~IsPost(method)
           THEN Respond([NoResponse EXCEPT !.status = 405, !.error = "Method not allowed"])
           ELSE pc' = "parse" /\ UNCHANGED <<response, nresp>>
    /\ UNCHANGED <<reqId, method, body, now, tz, rows, nextId, dbResult, emailSuccess,
                   bodyRead, dbLog, mailLog>>
    /\ UNCHANGED retryVars

\* reservationData = await req.json(), and its catch
ParseBody ==
    /\ UNCHANGED formVars
    /\ pc = "parse"
    /\ bodyRead' = TRUE
    /\ IF body.kind = "malformed"
         THEN Respond([NoResponse EXCEPT !.status = 400, !.error = "Invalid request format",
                                         !.details = "Could not parse JSON body"])
         ELSE pc' = "validate" /\ UNCHANGED <<response, nresp>>
    /\ UNCHANGED <<reqId, method, body, now, tz, rows, nextId, dbResult, emailSuccess,
                   dbLog, mailLog>>
    /\ UNCHANGED retryVars

\* validateReservationData(reservationData) and the 400 it leads to; on success
\* the client is created and retryOperation is entered for the insert
Validate ==
    /\ UNCHANGED formVars
    /\ pc = "validate"
    /\ IF body.kind = "null"
         THEN \* data.name on null throws a TypeError
              /\ thrown' = "Cannot read properties of null"
              /\ pc' = "caught"
              /\ UNCHANGED <<now, response, nresp, maxRetries, delay, attempt, lastError,
                             rpc, result, calls, waits, opLog>>
         ELSE \E t \in Nows :
              /\ now' = t
              /\ LET validation == validateReservationData(body.data, t, tz) IN
                 IF ~validation.valid
                   THEN /\ Respond([NoResponse EXCEPT !.status = 400,
                                                      !.error = "Validation error",
                                                      !.message = validation.message])
                        /\ UNCHANGED retryVars
                   ELSE /\ pc' = "persist"
                        /\ RetryEnter(MAX_RETRIES, RETRY_DELAY)
                        /\ UNCHANGED <<response, nresp>>
    /\ UNCHANGED <<reqId, method, body, tz, rows, nextId, dbResult, emailSuccess,
                   bodyRead, dbLog, mailLog>>

\* one invocation of the insert closure by retryOperation:
\*   ok         the row is committed and returned
\*   error      nothing is committed, supabase reports an error
\*   commitLost the row is committed but the call is reported as failed
DbAttempt ==
    /\ UNCHANGED formVars
    /\ pc = "persist"
    /\ RetryCanTry
    /\ \E outcome \in {"ok", "error", "commitLost"} : \E e \in DbErrors :
         LET row == [id |-> nextId, req |-> reqId] IN
         /\ outcome = "ok" => e = "db constraint"
         /\ outcome = "commitLost" => e = "db timeout"
         /\ dbLog' = Append(dbLog, [outcome |-> outcome, error |-> IF outcome = "ok" THEN NoError ELSE e])
         /\ IF outcome = "error"
              THEN UNCHANGED <<rows, nextId>>
              ELSE rows' = Append(rows, row) /\ nextId' = nextId + 1
         /\ IF outcome = "ok" THEN RetryReturn(<<row>>) ELSE RetryCatch(e)
    /\ UNCHANGED <<pc, reqId, method, body, now, tz, dbResult, emailSuccess,
                   response, nresp, bodyRead, mailLog>>

\* catch around the insert's retryOperation: 500 'Database error'
DbCatch ==
    /\ UNCHANGED formVars
    /\ pc = "persist"
    /\ rpc = "threw"
    /\ Respond(DatabaseErrorBody(thrown))
    /\ UNCHANGED <<reqId, method, body, now, tz, rows, nextId, dbResult, emailSuccess,
                   bodyRead, dbLog, mailLog>>
    /\ UNCHANGED retryVars

\* the insert's retryOperation returned: dbResult is set, the e-mail is built and
\* retryOperation is entered for the send
StartNotify ==
    /\ UNCHANGED formVars
    /\ pc = "persist"
    /\ rpc = "returned"
    /\ dbResult' = result
    /\ emailSuccess' = FALSE
    /\ pc' = "notify"
    /\ RetryEnter(MAX_RETRIES, RETRY_DELAY)
    /\ UNCHANGED <<reqId, method, body, now, tz, rows, nextId, response, nresp,
                   bodyRead, dbLog, mailLog>>

\* one invocation of the e-mail closure by retryOperation:
\*   fetchThrows  fetch rejects
\*   non2xx       !emailResponse.ok, the closure throws
\*   okBodyFails  emailResponse.ok, emailSuccess = true, then emailResponse.json() rejects
\*   ok           emailResponse.ok, emailSuccess = true, the body is returned
EmailAttempt ==
    /\ UNCHANGED formVars
    /\ pc = "notify"
    /\ RetryCanTry
    /\ \E outcome \in {"fetchThrows", "non2xx", "okBodyFails", "ok"} :
         /\ mailLog' = Append(mailLog, outcome)
         /\ emailSuccess' = IF outcome \in {"okBodyFails", "ok"} THEN TRUE ELSE emailSuccess
         /\ CASE outcome = "ok" -> RetryReturn(<<"email id">>)
              [] outcome = "fetchThrows" -> RetryCatch("fetch failed")
              [] outcome = "non2xx" -> RetryCatch("Email sending failed: 422")
              [] outcome = "okBodyFails" -> RetryCatch("Unexpected end of JSON input")
    /\ UNCHANGED <<pc, reqId, method, body, now, tz, rows, nextId, dbResult,
                   response, nresp, bodyRead, dbLog>>

\* variant: the send is not wrapped in a try/catch, its failure reaches the outer catch
RespondSuccessRethrow ==
    /\ UNCHANGED formVars
    /\ pc = "notify"
    /\ rpc \in {"returned", "threw"}
    /\ IF rpc = "threw"
         THEN pc' = "caught" /\ UNCHANGED <<response, nresp>>
         ELSE Respond(SuccessBody(emailSuccess, dbResult))
    /\ UNCHANGED <<reqId, method, body, now, tz, rows, nextId, dbResult, emailSuccess,
                   bodyRead, dbLog, mailLog>>
    /\ UNCHANGED retryVars

\* the send's retryOperation returned, or threw and the catch swallowed it: 200
RespondSuccess ==
    /\ UNCHANGED formVars
    /\ pc = "notify"
    /\ rpc \in {"returned", "threw"}
    /\ Respond(SuccessBody(emailSuccess, dbResult))
    /\ UNCHANGED <<reqId, method, body, now, tz, rows, nextId, dbResult, emailSuccess,
                   bodyRead, dbLog, mailLog>>
    /\ UNCHANGED retryVars

\* variant: there is no outer catch, the failure leaves the handler
OuterCatchMissing ==
    /\ UNCHANGED formVars
    /\ pc = "caught"
    /\ pc' = "crashed"
    /\ UNCHANGED <<reqId, method, body, now, tz, rows, nextId, dbResult, emailSuccess,
                   response, nresp, bodyRead, dbLog, mailLog>>
    /\ UNCHANGED retryVars

\* the outer catch: 500 'Internal server error'
OuterCatch ==
    /\ UNCHANGED formVars
    /\ pc = "caught"
    /\ Respond([NoResponse EXCEPT !.status = 500, !.error = "Internal server error",
                                  !.message = "An unexpected error occurred. Please try again later.",
                                  !.details = thrown])
    /\ UNCHANGED <<reqId, method, body, now, tz, rows, nextId, dbResult, emailSuccess,
                   bodyRead, dbLog, mailLog>>
    /\ UNCHANGED retryVars

----------------------------------------------------------------------------
(* The reservation form (ReservationForm) *)

NoDate == -1                     \* date = undefined

FormFields == {"name", "email", "time", "guests", "message"}

\* useState({name: "", email: "", ...}); the three event fields behave like message
EmptyForm == [f \in FormFields |-> ""]

\* what the awaited fetch and the reading of its body come to
FetchOutcomes == {"okEmailSent", "okEmailNotSent", "okBadJson", "httpError", "networkError", "abort"}

\* the try block ran to its end
Succeeded(o) == o \in {"okEmailSent", "okEmailNotSent"}

\* responseData.emailSent === false ? ... : ...
SuccessToast(o) == IF o = "okEmailNotSent" THEN "successNoEmail" ELSE "successEmail"

\* isNetworkError ? ... : error.message || ...
ErrorToast(o) == IF o = "networkError" THEN "errorNetwork" ELSE "errorMessage"

\* variant: the suggestion is shown from the 2nd failure on
ShowContactHintEarly(seen) == seen >= 1

\* submissionAttempts >= 2, on the value the running handleSubmit sees
ShowContactHint(seen) == seen >= 2

\* handleInputChange / handleSelectChange
InputChange ==
    /\ \E f \in FormFields : \E v \in FieldVals :
         /\ formData[f] # v
         /\ formData' = [formData EXCEPT ![f] = v]
    /\ UNCHANGED <<date, reservationType, isSubmitting, submissionAttempts,
                   seenAttempts, fpc, toasts, posts, submits, successes, failStreak>>
    /\ UNCHANGED handlerVars
    /\ UNCHANGED retryVars

\* onSelect={setDate}: a day is picked, or the picked day is cleared
SelectDate ==
    /\ \E d \in {NoDate} \cup (0..MaxDay) :
         /\ d # date
         /\ date' = d
    /\ UNCHANGED <<reservationType, isSubmitting, submissionAttempts, formData,
                   seenAttempts, fpc, toasts, posts, submits, successes, failStreak>>
    /\ UNCHANGED handlerVars
    /\ UNCHANGED retryVars

\* onValueChange={(value) => setReservationType(value)}
SelectType ==
    /\ \E t \in {"table", "event"} :
         /\ t # reservationType
         /\ reservationType' = t
    /\ UNCHANGED <<date, isSubmitting, submissionAttempts, formData,
                   seenAttempts, fpc, toasts, posts, submits, successes, failStreak>>
    /\ UNCHANGED handlerVars
    /\ UNCHANGED retryVars

\* variant: the date check does not return, the submission goes on
SubmitNoDatePosts ==
    /\ ~isSubmitting
    /\ date = NoDate
    /\ submits < MaxSubmits
    /\ toasts' = {"selectDate"}
    /\ isSubmitting' = TRUE
    /\ seenAttempts' = submissionAttempts
    /\ submissionAttempts' = submissionAttempts + 1
    /\ posts' = posts + 1
    /\ submits' = submits + 1
    /\ fpc' = "fetching"
    /\ UNCHANGED <<date, reservationType, formData, successes, failStreak>>
    /\ UNCHANGED handlerVars
    /\ UNCHANGED retryVars

\* handleSubmit with no date selected: the toast and the early return
SubmitNoDate ==
    /\ ~isSubmitting
    /\ date = NoDate
    /\ toasts' = {"selectDate"}
    /\ UNCHANGED <<date, reservationType, isSubmitting, submissionAttempts, formData,
                   seenAttempts, fpc, posts, submits, successes, failStreak>>
    /\ UNCHANGED handlerVars
    /\ UNCHANGED retryVars

\* handleSubmit with a date selected, up to the awaited fetch: the button is enabled,
\* isSubmitting and the counter are set, the one POST is issued
SubmitStart ==
    /\ ~isSubmitting
    /\ date # NoDate
    /\ submits < MaxSubmits
    /\ isSubmitting' = TRUE
    /\ seenAttempts' = submissionAttempts
    /\ submissionAttempts' = submissionAttempts + 1
    /\ posts' = posts + 1
    /\ submits' = submits + 1
    /\ fpc' = "fetching"
    /\ toasts' = {}
    /\ UNCHANGED <<date, reservationType, formData, successes, failStreak>>
    /\ UNCHANGED handlerVars
    /\ UNCHANGED retryVars

\* handleSubmit after the fetch settled: the rest of the try block, or the catch
\* block, and the finally block
SubmitSettle ==
    /\ fpc = "fetching"
    /\ \E o \in FetchOutcomes :
         IF Succeeded(o)
           THEN /\ toasts' = {SuccessToast(o)}
                /\ formData' = EmptyForm
                /\ date' = NoDate
                /\ reservationType' = "table"
                /\ submissionAttempts' = 0
                /\ successes' = successes + 1
                /\ failStreak' = 0
           ELSE /\ toasts' = {ErrorToast(o)} \cup
                             (IF ShowContactHint(seenAttempts) THEN {"needHelp"} ELSE {})
                /\ failStreak' = failStreak + 1
                /\ UNCHANGED <<formData, date, reservationType, submissionAttempts, successes>>
    /\ isSubmitting' = FALSE
    /\ fpc' = "idle"
    /\ UNCHANGED <<seenAttempts, posts, submits>>
    /\ UNCHANGED handlerVars
    /\ UNCHANGED retryVars

InitFormVars ==
    /\ date = NoDate
    /\ reservationType = "table"
    /\ isSubmitting = FALSE
    /\ submissionAttempts = 0
    /\ formData = EmptyForm
    /\ seenAttempts = 0
    /\ fpc = "idle"
    /\ toasts = {}
    /\ posts = 0
    /\ submits = 0
    /\ successes = 0
    /\ failStreak = 0

----------------------------------------------------------------------------
(* Specifications *)

InitHandlerVars ==
    /\ reqId = 0
    /\ method = "POST"
    /\ body = [kind |-> "null", data |-> NoPayload]
    /\ now = 24
    /\ rows = <<>>
    /\ dbResult = NoValue
    /\ emailSuccess = FALSE
    /\ response = NoResponse
    /\ nresp = 0
    /\ bodyRead = FALSE
    /\ dbLog = <<>>
    /\ mailLog = <<>>

Init ==
    /\ pc = "idle"
    /\ InitHandlerVars
    /\ InitFormVars
    /\ tz \in Offsets
    /\ nextId \in {0, 1}
    /\ maxRetries = 0
    /\ delay = 0
    /\ attempt = 0
    /\ lastError = NoError
    /\ rpc = "off"
    /\ result = NoValue
    /\ calls = 0
    /\ waits = <<>>
    /\ opLog = <<>>
    /\ thrown = NoError

HandlerStep ==
    \/ MethodGate
    \/ ParseBody
    \/ Validate
    \/ DbAttempt
    \/ RetrySleep
    \/ RetryExhausted
    \/ DbCatch
    \/ StartNotify
    \/ EmailAttempt
    \/ RespondSuccess
    \/ OuterCatch

Next == Receive \/ HandlerStep \/ Finish

Spec == Init /\ [][Next]_vars

InitRetry ==
    /\ pc = "retry"
    /\ InitHandlerVars
    /\ InitFormVars
    /\ tz = 0
    /\ nextId = 1
    /\ maxRetries \in 0..MaxN
    /\ delay \in {1, RETRY_DELAY}
    /\ attempt = 0
    /\ lastError = NoError
    /\ rpc = "try"
    /\ result = NoValue
    /\ calls = 0
    /\ waits = <<>>
    /\ opLog = <<>>
    /\ thrown = NoError

NextRetry == OpAttempt \/ RetrySleep \/ RetryExhausted

RetrySpec == InitRetry /\ [][NextRetry]_vars

InitForm ==
    /\ pc = "form"
    /\ InitHandlerVars
    /\ InitFormVars
    /\ tz = 0
    /\ nextId = 1
    /\ maxRetries = 0
    /\ delay = 0
    /\ attempt = 0
    /\ lastError = NoError
    /\ rpc = "off"
    /\ result = NoValue
    /\ calls = 0
    /\ waits = <<>>
    /\ opLog = <<>>
    /\ thrown = NoError

NextForm == InputChange \/ SelectDate \/ SelectType \/ SubmitNoDate \/ SubmitStart \/ SubmitSettle

FormSpec == InitForm /\ [][NextForm]_vars

----------------------------------------------------------------------------
(* Properties *)

\* the current request has been answered
Answered == pc = "done"

\* rows of the table that belong to the current request
RowsOfRequest == {i \in DOMAIN rows : rows[i].req = reqId}

\* some insert attempt of the current request was reported as successful
InsertSucceeded == \E k \in DOMAIN dbLog : dbLog[k].outcome = "ok"

\* a required field of the payload is missing or empty
SomeRequiredMissing(data) ==
    \/ data.name = ""
    \/ data.email = <<>>
    \/ data.date.kind = "empty"
    \/ data.time = ""
    \/ data.guests = ""
    \/ data.reservationType = ""

\* the date names a calendar day before the current local calendar day
PastDate(data) == data.date.kind = "iso" /\ data.date.day < (now + tz) \div 24

\* the e-mail address does not have the shape local@domain.tld
BadEmail(data) == ~emailRegexTest(data.email)

\* the request's input is invalid: unparseable body, or a payload with a missing
\* field, a bad e-mail address or a past date
InvalidInput ==
    \/ body.kind = "malformed"
    \/ body.kind = "null"
    \/ /\ body.kind = "object"
       /\ SomeRequiredMissing(body.data) \/ BadEmail(body.data) \/ PastDate(body.data)

\* C1: every POST request whose body does not parse or whose payload fails
\* validation is answered 400, and no insert and no e-mail send was made for it.
C1_InvalidInputIs400 ==
    (Answered /\ method = "POST" /\ InvalidInput)
        => /\ response.status = 400
           /\ dbLog = <<>>
           /\ mailLog = <<>>

\* C2: when all 3 insert attempts fail the answer is 500 'Database error' with the
\* 3rd attempt's message as details and no e-mail send; and an e-mail send is
\* always preceded by a successful insert of the same request.
C2_DatabaseFailure ==
    /\ (Answered /\ Len(dbLog) = MAX_RETRIES /\ ~InsertSucceeded)
         => /\ response.status = 500
            /\ response.error = "Database error"
            /\ response.details = dbLog[MAX_RETRIES].error
            /\ mailLog = <<>>
    /\ mailLog # <<>> => (InsertSucceeded /\ RowsOfRequest # {})

C2_Witness ==
    /\ Answered
    /\ Len(dbLog) = MAX_RETRIES
    /\ ~InsertSucceeded
    /\ dbLog[1].error # dbLog[MAX_RETRIES].error
    /\ response.status = 500

\* every e-mail attempt of the current request failed by a fetch rejection or a non-2xx answer
EmailAlwaysFailed ==
    /\ Len(mailLog) = MAX_RETRIES
    /\ \A k \in DOMAIN mailLog : mailLog[k] \in {"fetchThrows", "non2xx"}

\* C3: when the insert succeeded and every e-mail attempt failed, the answer is
\* 200 with success true, emailSent false and an emailNote, and the row that was
\* returned by the insert is in the table.
C3_EmailFailureSwallowed ==
    (Answered /\ InsertSucceeded /\ EmailAlwaysFailed)
        => /\ response.status = 200
           /\ response.success
           /\ ~response.emailSent
           /\ response.emailNote # NoNote
           /\ \E i \in DOMAIN rows : rows[i] = dbResult[1]

C3_Witness ==
    /\ Answered
    /\ InsertSucceeded
    /\ EmailAlwaysFailed
    /\ mailLog[1] = "fetchThrows"
    /\ mailLog[MAX_RETRIES] = "non2xx"
    /\ response.status = 200

\* C4: once a request whose insert succeeded is answered, the table holds exactly
\* one row for it, whatever the earlier attempts did.
C4_ExactlyOneRow ==
    (Answered /\ InsertSucceeded) => Cardinality(RowsOfRequest) = 1

\* the attempts made so far, all but possibly the last, failed
OnlyLastMaySucceed == \A k \in 1..(Len(opLog) - 1) : ~opLog[k].ok

\* C5: retryOperation invokes the operation at most maxRetries times, stops at
\* the first success and returns its value, and after maxRetries failures throws
\* the last attempt's failure (the generic one when there was no attempt); it
\* always ends by returning or throwing.
C5_BoundedRetry ==
    /\ calls = Len(opLog)
    /\ calls <= maxRetries
    /\ OnlyLastMaySucceed
    /\ rpc = "returned" =>
         /\ calls >= 1
         /\ opLog[calls].ok
         /\ result = opLog[calls].val
    /\ rpc = "threw" =>
         /\ calls = maxRetries
         /\ \A k \in DOMAIN opLog : ~opLog[k].ok
         /\ thrown = IF maxRetries = 0 THEN GenericError ELSE opLog[maxRetries].err
    /\ (rpc \notin {"returned", "threw"}) => ENABLED NextRetry

C5_Witness ==
    /\ rpc = "threw"
    /\ maxRetries = 3
    /\ calls = 3
    /\ opLog[1].err # opLog[3].err
    /\ thrown = opLog[3].err

\* number of failed attempts so far that were followed by a wait
WaitsDue ==
    CASE rpc = "sleep" -> calls - 1
      [] rpc = "returned" -> calls - 1
      [] rpc = "threw" -> IF maxRetries = 0 THEN 0 ELSE maxRetries - 1
      [] OTHER -> IF calls = maxRetries /\ calls > 0 THEN calls - 1 ELSE calls

InsertAndEmailSucceeded ==
    /\ dbLog # <<>> /\ dbLog[Len(dbLog)].outcome = "ok"
    /\ mailLog # <<>> /\ mailLog[Len(mailLog)] = "ok"

\* C7: after a successful insert and a successful send the answer is 200 with
\* emailSent true, emailNote null and reservationId the id of the inserted row.
C7_SuccessResponse ==
    (Answered /\ InsertAndEmailSucceeded)
        => /\ response.status = 200
           /\ response.emailSent
           /\ response.emailNote = NoNote
           /\ response.reservationId = dbResult[1].id

\* C8: a request is answered exactly once: never twice, a handler that has not
\* answered yet can always take a step, and a failure that reaches the outer
\* catch is answered 500 'Internal server error'.
C8_ExactlyOneResponse ==
    /\ nresp <= 1
    /\ Answered <=> nresp = 1
    /\ Answered => response.status \in {200, 400, 405, 500}
    /\ (pc \notin {"idle", "done"}) => ENABLED HandlerStep
    /\ (Answered /\ method = "POST" /\ body.kind = "null")
         => (response.status = 500 /\ response.error = "Internal server error")

C8_Witness ==
    /\ Answered
    /\ nresp = 1
    /\ body.kind = "null"
    /\ response.error = "Internal server error"

\* C9: OPTIONS is answered 200 and any method other than OPTIONS and POST 405
\* 'Method not allowed'; in both cases the body is never read and no insert and
\* no e-mail send is made.
C9_MethodGate ==
    /\ (Answered /\ method = "OPTIONS") => response.status = 200
    /\ (Answered /\ method \notin {"OPTIONS", "POST"})
         => (response.status = 405 /\ response.error = "Method not allowed")
    /\ method # "POST" => (~bodyRead /\ dbLog = <<>> /\ mailLog = <<>>)

C9_Witness ==
    /\ Answered
    /\ method = "GET"
    /\ body.kind = "object"
    /\ ~SomeRequiredMissing(body.data)
    /\ response.status = 405

\* C10: validation reports the first violation only, in the order missing field,
\* e-mail format, past date.
C10_ValidationPrecedence ==
    (Answered /\ method = "POST" /\ body.kind = "object") =>
        LET data == body.data IN
        /\ SomeRequiredMissing(data)
             => (response.status = 400 /\ response.message = MissingMsg)
        /\ (~SomeRequiredMissing(data) /\ BadEmail(data))
             => (response.status = 400 /\ response.message = EmailMsg)
        /\ (~SomeRequiredMissing(data) /\ ~BadEmail(data) /\ PastDate(data))
             => (response.status = 400 /\ response.message = PastMsg)

C10_Witness ==
    /\ Answered
    /\ method = "POST"
    /\ body.kind = "object"
    /\ ~SomeRequiredMissing(body.data)
    /\ BadEmail(body.data)
    /\ PastDate(body.data)
    /\ response.message = EmailMsg

\* C11: a payload that passes the required-field and e-mail checks is rejected
\* with the past-date message exactly when its date is a calendar day before the
\* current local calendar day, whatever the time of day and the offset to UTC.
C11_PastDateExactly ==
    (Answered /\ method = "POST" /\ body.kind = "object"
       /\ ~SomeRequiredMissing(body.data) /\ ~BadEmail(body.data))
        => ((response.status = 400 /\ response.message = PastMsg) <=> PastDate(body.data))

\* C14: in a 200 answer emailSent is true exactly when the send's retryOperation
\* returned; when it threw, emailSent is false and emailNote is set; and no
\* attempt follows an attempt the provider answered 2xx.
C14_EmailSentIffCompleted ==
    (Answered /\ response.success) =>
        /\ response.emailSent <=> rpc = "returned"
        /\ rpc = "threw" => (~response.emailSent /\ response.emailNote # NoNote)
        /\ \A k \in 1..(Len(mailLog) - 1) : mailLog[k] \notin {"ok", "okBodyFails"}

\* the step ends a submission: the awaited fetch has settled and handleSubmit returns
SettleStep == fpc = "fetching" /\ fpc' = "idle"

\* C12: a failed submission shows the 'contact us directly' suggestion exactly
\* when it is at least the 3rd failed submission in a row since page load or the
\* last successful one; a successful submission resets the attempt counter to 0
\* and clears the form.
C12_ContactHint ==
    [][ SettleStep =>
          IF toasts' \cap {"successEmail", "successNoEmail"} # {}
            THEN /\ submissionAttempts' = 0
                 /\ formData' = EmptyForm
                 /\ date' = NoDate
                 /\ reservationType' = "table"
                 /\ "needHelp" \notin toasts'
            ELSE "needHelp" \in toasts' <=> failStreak' >= 3 ]_vars

C12_Witness ==
    /\ fpc = "idle"
    /\ successes >= 1
    /\ failStreak = 3
    /\ "needHelp" \in toasts

\* C13: a submit with no date selected shows the error message and changes nothing
\* else: no POST, the attempt counter, isSubmitting and the fields stay; a submit
\* with a date selected issues one POST, and no POST is issued otherwise.
C13_LocalReject ==
    /\ [](posts = submits)
    /\ [][ /\ (date = NoDate /\ ~isSubmitting /\ toasts' # toasts)
                => /\ toasts' = {"selectDate"}
                   /\ UNCHANGED <<posts, submissionAttempts, isSubmitting, formData,
                                  date, reservationType>>
           /\ date = NoDate => posts' = posts
           /\ posts' # posts
                => (posts' = posts + 1 /\ submits' = submits + 1 /\ fpc = "idle") ]_vars

C13_Witness ==
    /\ toasts = {"selectDate"}
    /\ date = NoDate
    /\ submissionAttempts >= 1
    /\ formData["name"] = "x"
    /\ posts >= 1
    /\ ~isSubmitting

====
